---- MODULE Spec2Model ----
(***************************************************************************)
(* Model of rvc/lib/tools/prerequisites_download.py: the prerequisite      *)
(* download pipeline (size probe, thread-pool fetch workers, shared rich   *)
(* progress task).                                                         *)
(***************************************************************************)
EXTENDS Integers, Sequences, FiniteSets, TLC

\* ------------------------------------------------------------------ bounds
\* threads of the ThreadPoolExecutor that run download_file at the same time
PoolSize == 2
\* number of runs of the pipeline in one behaviour
MaxRuns == 2
\* destination files that may be missing from an otherwise complete disk
MaxMissing == 1
\* requests (HEAD, GET, body stream) that may fail in one behaviour
MaxFaults == 1

\* ------------------------------------------------------- catalog (l. 6-32)
pretraineds_hifigan_src ==
    << << "pretrained_v2/",
          << "f0D32k.pth", "f0D40k.pth", "f0D48k.pth",
             "f0G32k.pth", "f0G40k.pth", "f0G48k.pth" >> >> >>

models_list == << << "predictors/", << "rmvpe.pt", "fcpe.pt" >> >> >>

embedders_list ==
    << << "embedders/contentvec/", << "pytorch_model.bin", "config.json" >> >> >>

executables_list == << << "", << "ffmpeg.exe", "ffprobe.exe" >> >> >>

\* folder_mapping_list.get(remote_folder, "")
folder_mapping_list(remote_folder) ==
    CASE remote_folder = "pretrained_v2/"        -> "rvc/models/pretraineds/hifi-gan/"
      [] remote_folder = "embedders/contentvec/" -> "rvc/models/embedders/contentvec/"
      [] remote_folder = "predictors/"           -> "rvc/models/predictors/"
      [] remote_folder = "formant/"              -> "rvc/models/formant/"
      [] OTHER                                   -> ""

block_size == 1024

\* ------------------------------------------------------------ path helpers
\* a prefix test that looks at the first character only
startswith_f(f) == Len(f) >= 1 /\ SubSeq(f, 1, 1) = "f"

\* str.startswith("f0")
startswith_f0(f) == Len(f) >= 2 /\ SubSeq(f, 1, 2) = "f0"

\* os.path.join(a, b) on a POSIX-style path
path_join(a, b) ==
    IF Len(b) > 0 /\ SubSeq(b, 1, 1) = "/" THEN b
    ELSE IF a = "" THEN b
    ELSE IF SubSeq(a, Len(a), Len(a)) = "/" THEN a \o b
    ELSE a \o "/" \o b

\* index of the last "/" of p, 0 when there is none
RECURSIVE LastSlash(_, _)
LastSlash(p, i) ==
    IF i = 0 THEN 0
    ELSE IF SubSeq(p, i, i) = "/" THEN i
    ELSE LastSlash(p, i - 1)

\* os.path.dirname(p)
path_dirname(p) ==
    LET i == LastSlash(p, Len(p)) IN
    IF i = 0 THEN "" ELSE IF i = 1 THEN "/" ELSE SubSeq(p, 1, i - 1)

\* os.path.basename(p)
path_basename(p) == SubSeq(p, LastSlash(p, Len(p)) + 1, Len(p))

\* destination_path of one (remote_folder, file) pair
\* a destination that ignores the file name (every file of a folder at one path)
destination_path_folder(remote_folder, file) == folder_mapping_list(remote_folder)

destination_path(remote_folder, file) ==
    path_join(folder_mapping_list(remote_folder), file)

\* ------------------------------------------------------- split_pretraineds
\* [f for f in files if f.startswith("f0")] and its complement
f0_files(files) == SelectSeq(files, startswith_f0)
non_f0_files(files) == SelectSeq(files, LAMBDA f : ~startswith_f0(f))

RECURSIVE split_pretraineds(_)
split_pretraineds(pretrained_list) ==
    IF pretrained_list = << >> THEN [f0_list |-> << >>, non_f0_list |-> << >>]
    ELSE LET n      == Len(pretrained_list)
             rest   == split_pretraineds(SubSeq(pretrained_list, 1, n - 1))
             folder == pretrained_list[n][1]
             files  == pretrained_list[n][2]
         IN [f0_list |->
                IF f0_files(files) # << >>
                THEN Append(rest.f0_list, << folder, f0_files(files) >>)
                ELSE rest.f0_list,
             non_f0_list |->
                IF non_f0_files(files) # << >>
                THEN Append(rest.non_f0_list, << folder, non_f0_files(files) >>)
                ELSE rest.non_f0_list]

\* line 107: the module rebinds the list to the f0 half of the split
pretraineds_hifigan_list == split_pretraineds(pretraineds_hifigan_src).f0_list


\* f"{url_base}/{remote_folder}{file}"
url_base == "https://huggingface.co/IAHispano/Applio/resolve/main/Resources"
url_of(remote_folder, file) == url_base \o "/" \o remote_folder \o file

\* --------------------------------------------------------------- the server
\* a response header that is absent
NoHeader == -1
\* int(response.headers.get("content-length", 0))
\* a header read without the default of l. 47
content_length_nodefault(h) == h

content_length(h) == IF h = NoHeader THEN 0 ELSE h

\* ------------------------------------------------ get_file_size_if_missing
\* The inner loop (l. 42-47) over the files of one entry.  acc carries
\* total_size and the HEAD requests issued so far, in order.
RECURSIVE probe_entry(_, _, _, _, _)
probe_entry(acc, remote_folder, files, fsys, server) ==
    IF files = << >> THEN acc
    ELSE LET file == Head(files)
             dest == destination_path(remote_folder, file)
             u    == url_of(remote_folder, file)
             acc2 == IF dest \notin DOMAIN fsys
                     THEN [total |-> acc.total + content_length(server[u].head),
                           heads |-> Append(acc.heads, u)]
                     ELSE acc
         IN probe_entry(acc2, remote_folder, Tail(files), fsys, server)

\* The outer loop (l. 40) over the entries of file_list.
RECURSIVE probe_list(_, _, _, _)
probe_list(acc, file_list, fsys, server) ==
    IF file_list = << >> THEN acc
    ELSE probe_list(probe_entry(acc, Head(file_list)[1], Head(file_list)[2],
                                fsys, server),
                    Tail(file_list), fsys, server)

\* the probe without the os.path.exists test of l. 44
get_file_size_always(file_list, fsys, server) ==
    probe_list([total |-> 0, heads |-> << >>], file_list, << >>, server)

get_file_size_if_missing(file_list, fsys, server) ==
    probe_list([total |-> 0, heads |-> << >>], file_list, fsys, server)

\* the total with every file probed, present or not
calculate_total_size_noskip(pretraineds_hifigan, models, exe, os_name, fsys, server) ==
    LET z  == [total |-> 0, heads |-> << >>]
        m  == IF models THEN get_file_size_always(models_list, fsys, server) ELSE z
        e  == IF models THEN get_file_size_always(embedders_list, fsys, server) ELSE z
        x  == IF exe /\ os_name = "nt"
              THEN get_file_size_always(executables_list, fsys, server) ELSE z
        p  == get_file_size_always(pretraineds_hifigan, fsys, server)
    IN [total |-> m.total + e.total + x.total + p.total,
        heads |-> m.heads \o e.heads \o x.heads \o p.heads]

\* ---------------------------------------------------- calculate_total_size
\* l. 118-125; the result also lists the HEAD requests in the order issued
calculate_total_size(pretraineds_hifigan, models, exe, os_name, fsys, server) ==
    LET z  == [total |-> 0, heads |-> << >>]
        m  == IF models THEN get_file_size_if_missing(models_list, fsys, server) ELSE z
        e  == IF models THEN get_file_size_if_missing(embedders_list, fsys, server) ELSE z
        x  == IF exe /\ os_name = "nt"
              THEN get_file_size_if_missing(executables_list, fsys, server) ELSE z
        p  == get_file_size_if_missing(pretraineds_hifigan, fsys, server)
    IN [total |-> m.total + e.total + x.total + p.total,
        heads |-> m.heads \o e.heads \o x.heads \o p.heads]

\* -------------------------------------------------------------------- state
VARIABLES
    sel,        \* the caller's flags [pretraineds_hifigan, models, exe]
    os_name,    \* os.name
    srv,        \* the server: url -> [head, clen, body]
    fs,         \* local files: existing path -> length in bytes
    dirs,       \* local directories that exist
    pc,         \* where prequisites_download_pipeline is
    total_size, \* the local total_size of the pipeline (l. 136)
    heads,      \* HEAD requests issued in this run, in order
    gets,       \* urls for which a GET was issued in this run
    tracker,    \* the rich task of this run
    wk,         \* the futures of this run, in submission order
    printed,    \* lines printed in this run
    run,        \* number of the current run
    fs0,        \* fs when the current run started
    dirs0,      \* dirs when the current run started
    prev,       \* how the previous run ended ("none" for the first run)
    faults,     \* requests that have failed so far
    arg,        \* argument of the function called (function specifications)
    ret         \* its result

vars == << sel, os_name, srv, fs, dirs, pc, total_size, heads, gets, tracker,
           wk, printed, run, fs0, dirs0, prev, faults, arg, ret >>

\* ------------------------------------------------------ the repo's catalog
RECURSIVE Pairs(_)
\* the (remote_folder, file) pairs of a file list, in loop order
Pairs(file_list) ==
    IF file_list = << >> THEN << >>
    ELSE [i \in 1..Len(Head(file_list)[2]) |->
              << Head(file_list)[1], Head(file_list)[2][i] >>]
         \o Pairs(Tail(file_list))

Range(s) == {s[i] : i \in 1..Len(s)}

AllPairs == Range(Pairs(models_list)) \cup Range(Pairs(embedders_list))
            \cup Range(Pairs(executables_list))
            \cup Range(Pairs(pretraineds_hifigan_list))
AllUrls  == {url_of(p[1], p[2]) : p \in AllPairs}
AllDests == {destination_path(p[1], p[2]) : p \in AllPairs}


\* ----------------------------------------------------------- initial states
\* body lengths the server serves: empty, and two blocks (1024 + 476)
Sizes == {0, 1500}
\* length of a file that is on disk before the first run
OldLens == {7}

\* what the server answers for one url: the content-length of the HEAD
\* response, the content-length of the GET response, the length of the body
\* (a declared GET length is the length of the body); in the pipeline
\* specifications every url is served with the same profile, in every run
Profiles ==
    {r \in [head : Sizes \cup {NoHeader}, clen : Sizes \cup {NoHeader}, body : Sizes] :
        r.clen # NoHeader => r.body = r.clen}

\* the destinations of the first k files of every entry of a file list
FirstDests(file_list, k) ==
    UNION {{destination_path(file_list[e][1], file_list[e][2][i]) :
               i \in {j \in 1..Len(file_list[e][2]) : j <= k}} :
           e \in 1..Len(file_list)}

\* the sets of destination files that exist before the first run: the first
\* k files of every list (as an interrupted earlier run leaves them), or all
\* but a few
InitPresent ==
    {FirstDests(models_list, k) \cup FirstDests(embedders_list, k)
        \cup FirstDests(executables_list, k)
        \cup FirstDests(pretraineds_hifigan_list, k) : k \in 0..Cardinality(AllDests)}
    \cup {AllDests \ M : M \in {X \in SUBSET AllDests : Cardinality(X) <= MaxMissing}}

NoTracker ==
    [live |-> FALSE, total |-> 0, completed |-> 0, description |-> "",
     stopped |-> FALSE]

\* the state before the first run, for a set of server profiles and a set of
\* sets of files present
InitWith(profiles, presents) ==
    /\ sel \in [pretraineds_hifigan : BOOLEAN, models : BOOLEAN, exe : BOOLEAN]
    /\ os_name \in {"nt", "posix"}
    /\ \E r \in profiles : srv = [u \in AllUrls |-> r]
    /\ \E P \in presents : \E l \in OldLens :
          /\ fs = [p \in P |-> l]
          /\ dirs = {path_dirname(p) : p \in P} \ {""}
    /\ fs0 = fs
    /\ dirs0 = dirs
    /\ pc = "idle"
    /\ total_size = 0
    /\ heads = << >>
    /\ gets = {}
    /\ tracker = NoTracker
    /\ wk = << >>
    /\ printed = << >>
    /\ run = 1
    /\ prev = "none"
    /\ faults = 0
    /\ arg = << >>
    /\ ret = << >>

Init == InitWith(Profiles, InitPresent)

\* the first j files of the models, embedders and executables lists and the
\* first h files of the pretrained list
PresentAt(j, h) ==
    FirstDests(models_list, j) \cup FirstDests(embedders_list, j)
        \cup FirstDests(executables_list, j)
        \cup FirstDests(pretraineds_hifigan_list, h)

\* initial states of the runs with failing requests: the server declares the
\* (non-empty) length it serves on HEAD; the disk lacks the small lists, or
\* one file of every list, or one pretrained file more than the pool has
\* threads, or nothing
ProfilesF == {r \in Profiles : r.body > 0 /\ r.head = r.body}
InitPresentF ==
    {PresentAt(0, 6), PresentAt(1, 5), PresentAt(2, 5 - PoolSize), PresentAt(2, 6)}

InitF == InitWith(ProfilesF, InitPresentF)

env == << sel, os_name, srv, run, fs0, dirs0, prev, arg, ret >>

\* --------------------------------------------- prequisites_download_pipeline
\* the texts of l. 144, 152, 156 and 159
DownloadingAll == "Downloading all files"
NoExecutables == "No executables needed"
Downloaded == "[bold green]Download Complete!"
AllDownloaded == "All files are already downloaded."

\* l. 137: pretraineds_hifigan_list if pretraineds_hifigan else []
hifigan_arg == IF sel.pretraineds_hifigan THEN pretraineds_hifigan_list ELSE << >>

\* l. 136-140: the probe returns
\* a probe that leaves an empty file at every destination it asked about
Probe_touch ==
    /\ pc = "idle"
    /\ LET r == calculate_total_size(hifigan_arg, sel.models, sel.exe,
                                     os_name, fs, srv)
           asked == {destination_path(p[1], p[2]) :
                        p \in {q \in AllPairs : url_of(q[1], q[2]) \in Range(r.heads)}}
       IN /\ total_size' = r.total
          /\ heads' = r.heads
          /\ fs' = [d \in asked |-> 0] @@ fs
    /\ pc' = "probed"
    /\ UNCHANGED << env, dirs, gets, tracker, wk, printed, faults >>

Probe ==
    /\ pc = "idle"
    /\ LET r == calculate_total_size(hifigan_arg, sel.models, sel.exe,
                                     os_name, fs, srv)
       IN /\ total_size' = r.total
          /\ heads' = r.heads
    /\ pc' = "probed"
    /\ UNCHANGED << env, fs, dirs, gets, tracker, wk, printed, faults >>

\* l. 46: requests.head raises at the k-th request; nothing catches it
ProbeFails ==
    /\ pc = "idle"
    /\ faults < MaxFaults
    /\ faults' = faults + 1
    /\ LET r == calculate_total_size(hifigan_arg, sel.models, sel.exe,
                                     os_name, fs, srv)
       IN \E k \in 1..Len(r.heads) : heads' = SubSeq(r.heads, 1, k)
    /\ pc' = "failed"
    /\ UNCHANGED << env, fs, dirs, gets, tracker, wk, printed, total_size >>

\* the download branch taken whatever the total is
AddTask_always ==
    /\ pc = "probed"
    /\ tracker' = [live |-> TRUE, total |-> total_size, completed |-> 0,
                   description |-> DownloadingAll, stopped |-> FALSE]
    /\ pc' = "d_models"
    /\ UNCHANGED << env, fs, dirs, total_size, heads, gets, wk, printed, faults >>

\* l. 142-144: total_size > 0, Progress() and add_task
AddTask ==
    /\ pc = "probed"
    /\ total_size > 0
    /\ tracker' = [live |-> TRUE, total |-> total_size, completed |-> 0,
                   description |-> DownloadingAll, stopped |-> FALSE]
    /\ pc' = "d_models"
    /\ UNCHANGED << env, fs, dirs, total_size, heads, gets, wk, printed, faults >>

\* l. 158-159: the else branch
NothingToDo ==
    /\ pc = "probed"
    /\ ~(total_size > 0)
    /\ printed' = Append(printed, AllDownloaded)
    /\ pc' = "done"
    /\ UNCHANGED << env, fs, dirs, total_size, heads, gets, tracker, wk, faults >>

\* ---------------------------------------------------- download_mapping_files
\* l. 78-89: one future per pair whose destination does not exist
\* a batch that submits every file of the list, present or not
futures_of_all(cat, file_list, fsys) ==
    LET every == Pairs(file_list)
    IN [i \in 1..Len(every) |->
           [cat  |-> cat,
            url  |-> url_of(every[i][1], every[i][2]),
            dest |-> destination_path(every[i][1], every[i][2]),
            st   |-> "queued",
            downloaded |-> 0]]

futures_of(cat, file_list, fsys) ==
    LET missing == SelectSeq(Pairs(file_list),
                     LAMBDA p : destination_path(p[1], p[2]) \notin DOMAIN fsys)
    IN [i \in 1..Len(missing) |->
           [cat  |-> cat,
            url  |-> url_of(missing[i][1], missing[i][2]),
            dest |-> destination_path(missing[i][1], missing[i][2]),
            st   |-> "queued",
            downloaded |-> 0]]

Finished(w) == w.st \in {"done", "failed"}
Running(w)  == w.st \in {"got", "open"}

\* a join that does not wait for the futures
BatchOver_nowait == TRUE

\* a join that raises as soon as one future has failed
BatchOver_failfast ==
    \/ \A i \in 1..Len(wk) : Finished(wk[i])
    \/ \E i \in 1..Len(wk) : wk[i].st = "failed"

\* l. 90-91 and the exit of the with block: every future of the batch is over
BatchOver == \A i \in 1..Len(wk) : Finished(wk[i])
\* a join that swallows the failure of a future
BatchFailed_never == FALSE

BatchFailed == \E i \in 1..Len(wk) : wk[i].st = "failed"

\* l. 145-146: download_mapping_files(models_list, ...) is entered
DispatchModels ==
    /\ pc = "d_models"
    /\ IF sel.models
       THEN /\ wk' = wk \o futures_of("models", models_list, fs)
            /\ pc' = "w_models"
       ELSE /\ wk' = wk
            /\ pc' = "d_exe"
    /\ UNCHANGED << env, fs, dirs, total_size, heads, gets, tracker, printed, faults >>

\* l. 146-147: the models batch is joined, the embedders batch is submitted
DispatchEmbedders ==
    /\ pc = "w_models"
    /\ BatchOver
    /\ IF BatchFailed
       THEN /\ wk' = wk
            /\ pc' = "failed"
       ELSE /\ wk' = wk \o futures_of("embedders", embedders_list, fs)
            /\ pc' = "w_embedders"
    /\ UNCHANGED << env, fs, dirs, total_size, heads, gets, tracker, printed, faults >>

\* l. 147: the embedders batch is joined
JoinEmbedders ==
    /\ pc = "w_embedders"
    /\ BatchOver
    /\ pc' = IF BatchFailed THEN "failed" ELSE "d_exe"
    /\ UNCHANGED << env, fs, dirs, total_size, heads, gets, tracker, wk, printed, faults >>

\* the executables step without the os.name test
DispatchExecutables_nogate ==
    /\ pc = "d_exe"
    /\ IF sel.exe
       THEN /\ wk' = wk \o futures_of("executables", executables_list, fs)
            /\ pc' = "w_exe"
       ELSE /\ pc' = "d_hifigan"
            /\ wk' = wk
    /\ UNCHANGED << env, fs, dirs, total_size, heads, gets, tracker, printed, faults >>

\* l. 148-152
DispatchExecutables ==
    /\ pc = "d_exe"
    /\ IF sel.exe
       THEN IF os_name = "nt"
            THEN /\ wk' = wk \o futures_of("executables", executables_list, fs)
                 /\ pc' = "w_exe"
                 /\ printed' = printed
            ELSE /\ printed' = Append(printed, NoExecutables)
                 /\ pc' = "d_hifigan"
                 /\ wk' = wk
       ELSE /\ pc' = "d_hifigan"
            /\ UNCHANGED << wk, printed >>
    /\ UNCHANGED << env, fs, dirs, total_size, heads, gets, tracker, faults >>

\* l. 150: the executables batch is joined
JoinExecutables ==
    /\ pc = "w_exe"
    /\ BatchOver
    /\ pc' = IF BatchFailed THEN "failed" ELSE "d_hifigan"
    /\ UNCHANGED << env, fs, dirs, total_size, heads, gets, tracker, wk, printed, faults >>

\* l. 153-154
DispatchHifigan ==
    /\ pc = "d_hifigan"
    /\ IF sel.pretraineds_hifigan
       THEN /\ wk' = wk \o futures_of("pretraineds_hifigan",
                                      pretraineds_hifigan_list, fs)
            /\ pc' = "w_hifigan"
       ELSE /\ wk' = wk
            /\ pc' = "complete"
    /\ UNCHANGED << env, fs, dirs, total_size, heads, gets, tracker, printed, faults >>

\* the pipeline goes on without joining the pretrained batch
JoinHifigan_nowait ==
    /\ pc = "w_hifigan"
    /\ pc' = "complete"
    /\ UNCHANGED << env, fs, dirs, total_size, heads, gets, tracker, wk, printed, faults >>

\* l. 154: the pretrained batch is joined
JoinHifigan ==
    /\ pc = "w_hifigan"
    /\ BatchOver
    /\ pc' = IF BatchFailed THEN "failed" ELSE "complete"
    /\ UNCHANGED << env, fs, dirs, total_size, heads, gets, tracker, wk, printed, faults >>

\* l. 155-156: stop_task, then the final description
MarkComplete ==
    /\ pc = "complete"
    /\ tracker' = [tracker EXCEPT !.stopped = TRUE,
                                  !.description = Downloaded]
    /\ pc' = "done"
    /\ UNCHANGED << env, fs, dirs, total_size, heads, gets, wk, printed, faults >>

\* ------------------------------------------------------------- download_file
NumRunning == Cardinality({i \in 1..Len(wk) : Running(wk[i])})

\* l. 57-59: os.makedirs(dir_name, exist_ok=True)
makedirs(d, dest) ==
    IF path_dirname(dest) # "" THEN d \cup {path_dirname(dest)} ELSE d

\* a pool thread takes the oldest queued work item and runs download_file
Startable(i) ==
    /\ wk[i].st = "queued"
    /\ \A j \in 1..(i - 1) : wk[j].st # "queued"
    /\ NumRunning < PoolSize

\* l. 57-60: the directory is made and the GET answers
Get(i) ==
    /\ Startable(i)
    /\ dirs' = makedirs(dirs, wk[i].dest)
    /\ gets' = gets \cup {wk[i].url}
    /\ wk' = [wk EXCEPT ![i].st = "got"]
    /\ UNCHANGED << env, fs, pc, total_size, heads, tracker, printed, faults >>

\* l. 60: requests.get raises
GetFails(i) ==
    /\ Startable(i)
    /\ faults < MaxFaults
    /\ faults' = faults + 1
    /\ dirs' = makedirs(dirs, wk[i].dest)
    /\ gets' = gets \cup {wk[i].url}
    /\ wk' = [wk EXCEPT ![i].st = "failed"]
    /\ UNCHANGED << env, fs, pc, total_size, heads, tracker, printed >>

\* l. 61-62: progress.update(task_id, total=total_size, description=...)
update_total(t, clen, dest) ==
    [t EXCEPT !.total = content_length(clen),
              !.description = "Downloading " \o path_basename(dest)]

\* l. 61-65: the task is updated, then open(destination_path, "wb") creates
\* or truncates the file
SetTotal(i) ==
    /\ wk[i].st = "got"
    /\ tracker' = update_total(tracker, srv[wk[i].url].clen, wk[i].dest)
    /\ fs' = (wk[i].dest :> 0) @@ fs
    /\ wk' = [wk EXCEPT ![i].st = "open"]
    /\ UNCHANGED << env, dirs, pc, total_size, heads, gets, printed, faults >>

\* an advance that writes back a stale value of completed
advance_lost(t, n) == [t EXCEPT !.completed = n]

\* l. 69: progress.update(task_id, advance=len(data)), under the task lock
advance(t, n) == [t EXCEPT !.completed = @ + n]

\* l. 66: the next block of at most block_size bytes of a body
next_block(body, written) ==
    IF body - written < block_size THEN body - written ELSE block_size

\* l. 66-69: one iteration of the loop
Chunk(i) ==
    /\ wk[i].st = "open"
    /\ fs[wk[i].dest] < srv[wk[i].url].body
    /\ LET n == next_block(srv[wk[i].url].body, fs[wk[i].dest])
       IN /\ fs' = [fs EXCEPT ![wk[i].dest] = @ + n]
          /\ wk' = [wk EXCEPT ![i].downloaded = @ + n]
          /\ tracker' = advance(tracker, n)
    /\ UNCHANGED << env, dirs, pc, total_size, heads, gets, printed, faults >>

\* l. 66: the stream breaks before the body is complete
\* a failing stream that removes the file it was writing
StreamFails_cleanup(i) ==
    /\ wk[i].st = "open"
    /\ faults < MaxFaults
    /\ faults' = faults + 1
    /\ fs[wk[i].dest] < srv[wk[i].url].body
    /\ wk' = [wk EXCEPT ![i].st = "failed"]
    /\ fs' = [d \in DOMAIN fs \ {wk[i].dest} |-> fs[d]]
    /\ UNCHANGED << env, dirs, pc, total_size, heads, gets, tracker, printed >>

StreamFails(i) ==
    /\ wk[i].st = "open"
    /\ faults < MaxFaults
    /\ faults' = faults + 1
    /\ fs[wk[i].dest] < srv[wk[i].url].body
    /\ wk' = [wk EXCEPT ![i].st = "failed"]
    /\ UNCHANGED << env, fs, dirs, pc, total_size, heads, gets, tracker, printed >>

\* l. 66: the stream is exhausted, the file is closed, the future completes
\* a worker that never returns
Finish_never(i) == FALSE

Finish(i) ==
    /\ wk[i].st = "open"
    /\ fs[wk[i].dest] = srv[wk[i].url].body
    /\ wk' = [wk EXCEPT ![i].st = "done"]
    /\ UNCHANGED << env, fs, dirs, pc, total_size, heads, gets, tracker, printed, faults >>

\* the caller invokes the pipeline again with the same arguments
Rerun ==
    /\ pc \in {"done", "failed"}
    /\ run < MaxRuns
    /\ run' = run + 1
    /\ prev' = pc
    /\ fs0' = fs
    /\ dirs0' = dirs
    /\ pc' = "idle"
    /\ total_size' = 0
    /\ heads' = << >>
    /\ gets' = {}
    /\ tracker' = NoTracker
    /\ wk' = << >>
    /\ printed' = << >>
    /\ UNCHANGED << sel, os_name, srv, fs, dirs, arg, ret, faults >>

Next ==
    \/ Probe
    \/ AddTask
    \/ NothingToDo
    \/ DispatchModels
    \/ DispatchEmbedders
    \/ JoinEmbedders
    \/ DispatchExecutables
    \/ JoinExecutables
    \/ DispatchHifigan
    \/ JoinHifigan
    \/ MarkComplete
    \/ \E i \in 1..Len(wk) : Get(i)
    \/ \E i \in 1..Len(wk) : SetTotal(i)
    \/ \E i \in 1..Len(wk) : Chunk(i)
    \/ \E i \in 1..Len(wk) : Finish(i)
    \/ Rerun

\* runs in which every request succeeds
Spec == Init /\ [][Next]_vars

\* runs in which requests may fail
NextF ==
    \/ Next
    \/ ProbeFails
    \/ \E i \in 1..Len(wk) : GetFails(i)
    \/ \E i \in 1..Len(wk) : StreamFails(i)

SpecF == InitF /\ [][NextF]_vars

\* the steps of one run: everything but the start of another run and the
\* failure of a request
Step ==
    \/ Probe
    \/ AddTask
    \/ NothingToDo
    \/ DispatchModels
    \/ DispatchEmbedders
    \/ JoinEmbedders
    \/ DispatchExecutables
    \/ JoinExecutables
    \/ DispatchHifigan
    \/ JoinHifigan
    \/ MarkComplete
    \/ \E i \in 1..Len(wk) : Get(i)
    \/ \E i \in 1..Len(wk) : SetTotal(i)
    \/ \E i \in 1..Len(wk) : Chunk(i)
    \/ \E i \in 1..Len(wk) : Finish(i)

\* every request returns or fails, the pool runs its queue and the main
\* thread is scheduled: a run that can take a step eventually takes one
InitPresentLive == {PresentAt(0, 6), PresentAt(1, 5), PresentAt(2, 3), PresentAt(2, 6)}
InitLive == InitWith(ProfilesF, InitPresentLive)
SpecLive == InitLive /\ [][NextF]_vars /\ WF_vars(Step)


\* ------------------------------------------------- function specifications
\* bounds of the lists handed to a function under test
MaxEntries == 2
MaxFiles == 3

\* file lists of at most e entries (remote_folder, files) with at most n
\* files in all
RECURSIVE FileListsOf(_, _, _, _)
FileListsOf(folders, names, e, n) ==
    IF e = 0 THEN {<< >>}
    ELSE {<< >>} \cup
         UNION {{<< x[1] >> \o x[2] :
                    x \in (folders \X [1..k -> names])
                           \X FileListsOf(folders, names, e - 1, n - k)} :
                k \in 0..n}

FileLists(folders, names) == FileListsOf(folders, names, MaxEntries, MaxFiles)

\* the variables of the pipeline, at rest
AtRest ==
    /\ sel = [pretraineds_hifigan |-> FALSE, models |-> FALSE, exe |-> FALSE]
    /\ os_name = "posix"
    /\ dirs = {}
    /\ dirs0 = {}
    /\ total_size = 0
    /\ heads = << >>
    /\ gets = {}
    /\ tracker = NoTracker
    /\ wk = << >>
    /\ printed = << >>
    /\ run = 1
    /\ prev = "none"
    /\ faults = 0

ProbeFolders == {"predictors/", "other/"}
ProbeNames == {"a.pt", "b.pt"}
ProbeHeads == {NoHeader, 700, 1500}

\* get_file_size_if_missing on any file list, local state and server
InitProbe ==
    /\ AtRest
    /\ arg \in FileLists(ProbeFolders, ProbeNames)
    /\ \E P \in SUBSET {destination_path(p[1], p[2]) : p \in Range(Pairs(arg))} :
          \E l \in OldLens : fs = [p \in P |-> l]
    /\ fs0 = fs
    /\ srv \in [{url_of(p[1], p[2]) : p \in Range(Pairs(arg))} ->
                  {[head |-> h, clen |-> h, body |-> content_length(h)] :
                      h \in ProbeHeads}]
    /\ pc = "call"
    /\ ret = << >>

CallProbe ==
    /\ pc = "call"
    /\ ret' = get_file_size_if_missing(arg, fs, srv)
    /\ pc' = "ret"
    /\ UNCHANGED << sel, os_name, srv, fs, dirs, total_size, heads, gets, tracker,
                    wk, printed, run, fs0, dirs0, prev, faults, arg >>

NextProbe == CallProbe

SpecProbe == InitProbe /\ [][NextProbe]_vars


SplitFolders == {"p/", "q/"}
\* names that start with "f0", equal "f0", contain it later, or are too short
SplitNames == {"f0a.pth", "f0", "xf0.pth", "f"}

\* split_pretraineds on any list of (folder, files) entries
InitSplit ==
    /\ AtRest
    /\ arg \in FileLists(SplitFolders, SplitNames)
    /\ fs = << >>
    /\ fs0 = fs
    /\ srv = << >>
    /\ pc = "call"
    /\ ret = << >>

CallSplit ==
    /\ pc = "call"
    /\ ret' = split_pretraineds(arg)
    /\ pc' = "ret"
    /\ UNCHANGED << sel, os_name, srv, fs, dirs, total_size, heads, gets, tracker,
                    wk, printed, run, fs0, dirs0, prev, faults, arg >>

NextSplit == CallSplit

SpecSplit == InitSplit /\ [][NextSplit]_vars

\* ---------------------------------------------------------------- claim C1
\* positions of the pairs ps whose destination path does not exist
MissingIdx(ps) ==
    {i \in 1..Len(ps) : destination_path(ps[i][1], ps[i][2]) \notin DOMAIN fs}

RECURSIVE SumHeads(_, _)
\* sum of the content lengths the server reports for the pairs of ps at the
\* positions in S
SumHeads(ps, S) ==
    IF S = {} THEN 0
    ELSE LET i == CHOOSE j \in S : TRUE
         IN content_length(srv[url_of(ps[i][1], ps[i][2])].head)
            + SumHeads(ps, S \ {i})

\* C1: get_file_size_if_missing issues one HEAD request for each pair whose
\* destination path does not exist and none for a pair whose destination
\* exists, and returns the sum of the content lengths of the missing files.
C1_SkipAwareProbe ==
    pc = "ret" =>
        LET ps == Pairs(arg)
            ms == MissingIdx(ps)
        IN /\ Len(ret.heads) = Cardinality(ms)
           /\ \A i \in 1..Len(ps) :
                 Cardinality({k \in 1..Len(ret.heads) :
                                 ret.heads[k] = url_of(ps[i][1], ps[i][2])})
                     = Cardinality({j \in ms : ps[j] = ps[i]})
           /\ ret.total = SumHeads(ps, ms)

\* a list of three files with distinct destinations, one of them present:
\* two HEAD requests
C1_Witness ==
    /\ pc = "ret"
    /\ Len(Pairs(arg)) = 3
    /\ Cardinality({destination_path(p[1], p[2]) : p \in Range(Pairs(arg))}) = 3
    /\ Cardinality(DOMAIN fs) = 1
    /\ Len(ret.heads) = 2
    /\ ret.total > 0


\* ---------------------------------------------------------------- claim C9
IsF0(p) == Len(p[2]) >= 2 /\ SubSeq(p[2], 1, 2) = "f0"
NotF0(p) == ~IsF0(p)

\* C9: split_pretraineds is a partition: the (folder, filename) pairs of
\* f0_list are the pairs of the input whose filename starts with "f0", those
\* of non_f0_list are all the others, each in input order and as often as
\* in the input; no output entry is empty.
C9_SplitPartition ==
    pc = "ret" =>
        /\ Pairs(ret.f0_list) = SelectSeq(Pairs(arg), IsF0)
        /\ Pairs(ret.non_f0_list) = SelectSeq(Pairs(arg), NotF0)
        /\ Len(Pairs(ret.f0_list)) + Len(Pairs(ret.non_f0_list)) = Len(Pairs(arg))
        /\ \A k \in 1..Len(ret.f0_list) : ret.f0_list[k][2] # << >>
        /\ \A k \in 1..Len(ret.non_f0_list) : ret.non_f0_list[k][2] # << >>

\* an input with both kinds of names in one entry and a second entry
C9_Witness ==
    /\ pc = "ret"
    /\ Len(arg) = 2
    /\ Len(arg[1][2]) = 2
    /\ Len(arg[2][2]) = 1
    /\ IsF0(<< arg[1][1], arg[1][2][1] >>)
    /\ NotF0(<< arg[1][1], arg[1][2][2] >>)
    /\ Len(ret.f0_list) = 2
    /\ Len(ret.non_f0_list) = 1


\* ------------------------------------------------- claims on the pipeline
\* the pairs of the categories that are selected and platform-eligible
SelectedPairs ==
    (IF sel.models
     THEN Range(Pairs(models_list)) \cup Range(Pairs(embedders_list)) ELSE {})
    \cup (IF sel.exe /\ os_name = "nt" THEN Range(Pairs(executables_list)) ELSE {})
    \cup (IF sel.pretraineds_hifigan
          THEN Range(Pairs(pretraineds_hifigan_list)) ELSE {})

SelectedDests == {destination_path(p[1], p[2]) : p \in SelectedPairs}
ExeUrls == {url_of(p[1], p[2]) : p \in Range(Pairs(executables_list))}

RECURSIVE SumDownloaded(_)
\* d1 + ... + dN: the bytes the first n workers passed to advance
SumDownloaded(n) == IF n = 0 THEN 0 ELSE wk[n].downloaded + SumDownloaded(n - 1)

RECURSIVE SumBodies(_)
\* sum of the body lengths the server serves for the pairs in S
SumBodies(S) ==
    IF S = {} THEN 0
    ELSE LET p == CHOOSE q \in S : TRUE
         IN srv[url_of(p[1], p[2])].body + SumBodies(S \ {p})

\* C2: when a run has finished without failure, the next run with the same
\* selection computes total 0, issues no GET, dispatches no worker and leaves
\* every file as it was (the server answers a url the same way in both runs).
C2_Idempotent ==
    (run > 1 /\ prev = "done") =>
        /\ total_size = 0
        /\ gets = {}
        /\ wk = << >>
        /\ fs = fs0
        /\ pc \in {"idle", "probed", "done"}

\* a second run has returned after a first run that downloaded files
C2_Witness ==
    /\ run = 2
    /\ prev = "done"
    /\ pc = "done"
    /\ \E d \in DOMAIN fs : fs[d] \notin OldLens
    /\ heads = << >>

\* C3: once every worker has returned, completed is the sum of the deltas
\* the workers passed to advance, whatever the interleaving was.
C3_NoLostUpdates ==
    (tracker.live /\ BatchOver) => tracker.completed = SumDownloaded(Len(wk))

\* two batches of two workers have advanced the task and returned
C3_Witness ==
    /\ tracker.live
    /\ BatchOver
    /\ Len(wk) >= 4
    /\ \A i \in 1..Len(wk) : wk[i].downloaded > block_size
    /\ tracker.completed = SumDownloaded(Len(wk))

\* every url is served with the HEAD and GET content-length of its body,
\* which is not empty
Consistent ==
    \A u \in DOMAIN srv :
        /\ srv[u].body > 0
        /\ srv[u].clen = srv[u].body
        /\ srv[u].head = srv[u].body

\* C4: when every selected file is missing and the server declares the length
\* it serves, a run that returns leaves every file with its served length,
\* completed and total equal to the sum of the lengths, and the task stopped.
C4_EndToEnd ==
    (/\ pc = "done"
     /\ SelectedDests # {}
     /\ SelectedDests \cap DOMAIN fs0 = {}
     /\ Consistent)
    => /\ \A p \in SelectedPairs :
            /\ destination_path(p[1], p[2]) \in DOMAIN fs
            /\ fs[destination_path(p[1], p[2])] = srv[url_of(p[1], p[2])].body
       /\ tracker.completed = SumBodies(SelectedPairs)
       /\ tracker.total = SumBodies(SelectedPairs)
       /\ tracker.stopped

\* C5: once the task exists, completed never exceeds total when every GET
\* returns the length the HEAD reported.
C5_TransferredLeTotal ==
    (tracker.live /\ Consistent) => tracker.completed <= tracker.total

Rank(cat) ==
    CASE cat = "models" -> 1
      [] cat = "embedders" -> 2
      [] cat = "executables" -> 3
      [] cat = "pretraineds_hifigan" -> 4

\* C6: workers are submitted in the order models, embedders, executables
\* (on nt only), pretrained; a worker of a category exists only when every
\* worker of every earlier category has finished, so the workers that run at
\* the same time are of one category.
C6_CategoryBarrier ==
    /\ \A i, j \in 1..Len(wk) : i < j => Rank(wk[i].cat) <= Rank(wk[j].cat)
    /\ \A i, j \in 1..Len(wk) :
          Rank(wk[i].cat) < Rank(wk[j].cat) => Finished(wk[i])
    /\ \A i, j \in 1..Len(wk) :
          (Running(wk[i]) /\ Running(wk[j])) => wk[i].cat = wk[j].cat
    /\ \A i \in 1..Len(wk) :
          /\ wk[i].cat = "executables" => (sel.exe /\ os_name = "nt")
          /\ wk[i].cat \in {"models", "embedders"} => sel.models
          /\ wk[i].cat = "pretraineds_hifigan" => sel.pretraineds_hifigan

\* workers of the four categories exist and two of the last one are running
C6_Witness ==
    /\ {wk[i].cat : i \in 1..Len(wk)} =
           {"models", "embedders", "executables", "pretraineds_hifigan"}
    /\ Cardinality({i \in 1..Len(wk) :
                       Running(wk[i]) /\ wk[i].cat = "pretraineds_hifigan"}) >= 2

\* C7: the task is stopped only when every worker of the run has returned;
\* from then on its label is the final one and nothing updates it again in
\* this run; a run that took the download branch and returned has stopped it.
C7_MarkCompleteLast ==
    /\ [](tracker.stopped =>
            /\ \A i \in 1..Len(wk) : wk[i].st = "done"
            /\ tracker.description = Downloaded
            /\ pc = "done")
    /\ []((pc = "done" /\ total_size > 0) => tracker.stopped)
    /\ [][(tracker.stopped /\ run' = run) => tracker' = tracker]_vars
    /\ [][(tracker'.stopped /\ ~tracker.stopped) => pc = "complete"]_vars

\* a run with workers has been marked complete
C7_Witness ==
    /\ tracker.stopped
    /\ tracker.description = Downloaded
    /\ Len(wk) >= 2
    /\ tracker.completed > 0

\* C8 as stated: with exe selected off nt, no executables worker, no probe
\* of an executable, and the notice is printed by every run that returns.
C8_NoticeAlways ==
    (sel.exe /\ os_name # "nt") =>
        /\ \A i \in 1..Len(wk) : wk[i].cat # "executables"
        /\ \A k \in 1..Len(heads) : heads[k] \notin ExeUrls
        /\ pc = "done" => NoExecutables \in Range(printed)

\* C8, amended: with exe selected off nt, no executables worker, no HEAD and
\* no GET of an executable; the notice is printed, once, exactly by the runs
\* that took the download branch and reached the executables step.
C8_PlatformGating ==
    (sel.exe /\ os_name # "nt") =>
        /\ \A i \in 1..Len(wk) : wk[i].cat # "executables"
        /\ \A k \in 1..Len(heads) : heads[k] \notin ExeUrls
        /\ gets \cap ExeUrls = {}
        /\ Cardinality({k \in 1..Len(printed) : printed[k] = NoExecutables})
             = IF /\ tracker.live
                  /\ pc \in {"d_hifigan", "w_hifigan", "complete", "done"}
               THEN 1 ELSE 0

\* a download run off nt has returned with the notice printed while the
\* executables are missing
C8_Witness ==
    /\ sel.exe
    /\ os_name # "nt"
    /\ pc = "done"
    /\ printed = << NoExecutables >>
    /\ \A p \in Range(Pairs(executables_list)) :
          destination_path(p[1], p[2]) \notin DOMAIN fs
    /\ wk # << >>

\* C10: when the probed total is 0 the run prints the message and returns;
\* it creates no task, issues no GET, submits no worker and leaves files and
\* directories as they were.
C10_EmptyRunNoop ==
    (total_size = 0 /\ pc \notin {"idle", "failed"}) =>
        /\ pc \in {"probed", "done"}
        /\ tracker = NoTracker
        /\ gets = {}
        /\ wk = << >>
        /\ fs = fs0
        /\ dirs = dirs0
        /\ printed = IF pc = "done" THEN << AllDownloaded >> ELSE << >>

\* an empty run has returned although selected files are missing
C10_Witness ==
    /\ pc = "done"
    /\ total_size = 0
    /\ printed = << AllDownloaded >>
    /\ \E d \in SelectedDests : d \notin DOMAIN fs
    /\ heads # << >>

\* C11: no two workers of a run have the same destination path, whether they
\* run at the same time or one after the other.
C11_DisjointWriters ==
    \A i, j \in 1..Len(wk) : i # j => wk[i].dest # wk[j].dest

\* two workers of one batch write their files at the same time, after an
\* earlier batch of the run
C11_Witness ==
    \E i, j, k \in 1..Len(wk) :
        /\ wk[k].st = "done"
        /\ wk[k].cat # wk[i].cat
        /\ wk[i].cat = wk[j].cat
        /\ i # j
        /\ wk[i].st = "open"
        /\ wk[j].st = "open"
        /\ fs[wk[i].dest] > 0
        /\ fs[wk[j].dest] > 0

\* some worker of the run has failed
AnyFailed == \E i \in 1..Len(wk) : wk[i].st = "failed"

\* C12: once a worker has failed, the run only goes on to the failure
\* terminal state: no worker of a later category is submitted, the task is
\* never stopped nor labelled complete, and the run never reaches Done.
C12_FailureAborts ==
    /\ [](AnyFailed =>
            /\ pc \in {"w_models", "w_embedders", "w_exe", "w_hifigan", "failed"}
            /\ ~tracker.stopped
            /\ tracker.description # Downloaded
            /\ \A i, j \in 1..Len(wk) :
                  wk[i].st = "failed" => Rank(wk[j].cat) <= Rank(wk[i].cat))
    /\ [][(AnyFailed /\ pc' # pc) =>
             \/ pc' = "failed"
             \/ (pc = "failed" /\ pc' = "idle" /\ run' = run + 1)]_vars

\* a models worker failed and the run ended in failure with the tracker left
\* open, while the pretrained files it was asked for are still missing
C12_Witness ==
    /\ pc = "failed"
    /\ \E i \in 1..Len(wk) : wk[i].st = "failed" /\ wk[i].cat = "models"
    /\ sel.pretraineds_hifigan
    /\ \E p \in Range(Pairs(pretraineds_hifigan_list)) :
          destination_path(p[1], p[2]) \notin DOMAIN fs
    /\ tracker.live
    /\ ~tracker.stopped

\* the pairs of the selected, platform-eligible categories whose destination
\* was missing when the run started
SelectedMissing0 ==
    {p \in SelectedPairs : destination_path(p[1], p[2]) \notin DOMAIN fs0}

RECURSIVE SumDeclared(_)
\* sum of the lengths the server declares on HEAD for the pairs in S
SumDeclared(S) ==
    IF S = {} THEN 0
    ELSE LET p == CHOOSE q \in S : TRUE
         IN content_length(srv[url_of(p[1], p[2])].head) + SumDeclared(S \ {p})

\* C13: the probe asks exactly for the missing files of the categories that
\* the selection and the platform gate in, each once, and the total is the sum
\* of their declared lengths; a run that is past its last dispatch has
\* submitted a worker for exactly the probed files.
C13_ProbeDispatchAgree ==
    pc \notin {"idle", "failed"} =>
        /\ Range(heads) = {url_of(p[1], p[2]) : p \in SelectedMissing0}
        /\ Len(heads) = Cardinality(SelectedMissing0)
        /\ total_size = SumDeclared(SelectedMissing0)
        /\ pc \in {"complete", "done"} =>
              {wk[i].url : i \in 1..Len(wk)} = Range(heads)

\* the same, the last part for the runs that took the download branch
C13_DownloadBranchAgree ==
    pc \notin {"idle", "failed"} =>
        /\ Range(heads) = {url_of(p[1], p[2]) : p \in SelectedMissing0}
        /\ Len(heads) = Cardinality(SelectedMissing0)
        /\ total_size = SumDeclared(SelectedMissing0)
        /\ (tracker.live /\ pc \in {"complete", "done"}) =>
              {wk[i].url : i \in 1..Len(wk)} = Range(heads)

\* the transitions of the run: Idle -> Probing, then Empty -> Done or NonEmpty
\* -> Downloading (a dispatch and a join per category) -> Completing -> Done;
\* a failed HEAD or a failed batch leads to the failure terminal state; a
\* terminal state is left only by the next run
Machine ==
    {<< "idle", "probed" >>, << "idle", "failed" >>,
     << "probed", "done" >>, << "probed", "d_models" >>,
     << "d_models", "w_models" >>, << "d_models", "d_exe" >>,
     << "w_models", "w_embedders" >>, << "w_models", "failed" >>,
     << "w_embedders", "d_exe" >>, << "w_embedders", "failed" >>,
     << "d_exe", "w_exe" >>, << "d_exe", "d_hifigan" >>,
     << "w_exe", "d_hifigan" >>, << "w_exe", "failed" >>,
     << "d_hifigan", "w_hifigan" >>, << "d_hifigan", "complete" >>,
     << "w_hifigan", "complete" >>, << "w_hifigan", "failed" >>,
     << "complete", "done" >>,
     << "done", "idle" >>, << "failed", "idle" >>}

\* C14: the run moves only along the transitions of the machine, the Empty
\* branch being taken exactly when the total is 0; every run that starts
\* reaches Done or the failure state; in a terminal state no worker is
\* queued or running.
C14_StateMachine ==
    /\ [][pc' # pc =>
             /\ << pc, pc' >> \in Machine
             /\ pc = "probed" => (pc' = "done" <=> total_size = 0)
             /\ pc' = "idle" => run' = run + 1]_vars
    /\ [](pc \in {"done", "failed"} => \A i \in 1..Len(wk) : Finished(wk[i]))
    /\ [](pc = "idle" => <>(pc \in {"done", "failed"}))

\* after a run that failed, a second run has downloaded and returned
C14_Witness ==
    /\ run = 2
    /\ prev = "failed"
    /\ pc = "done"
    /\ tracker.stopped
    /\ wk # << >>

\* C15: the probe of a run leaves every file (existence and content), every
\* directory and the tracker as they were; it only issues HEAD requests.
C15_ProbeNoLocalEffect ==
    /\ [][(pc = "idle" /\ pc' # "idle") =>
             /\ DOMAIN fs' = DOMAIN fs
             /\ fs' = fs
             /\ dirs' = dirs
             /\ tracker' = tracker
             /\ gets' = gets
             /\ wk' = wk]_vars
    /\ [](pc = "probed" =>
            /\ fs = fs0
            /\ dirs = dirs0
            /\ tracker = NoTracker)

\* a probe has asked for two files or more while other selected files exist
C15_Witness ==
    /\ pc = "probed"
    /\ Len(heads) >= 2
    /\ total_size > 0
    /\ \E d \in SelectedDests : d \in DOMAIN fs
    /\ \E d \in SelectedDests : d \notin DOMAIN fs

\* the positions of ps whose HEAD response carries a content-length
WithHeader(ps, S) ==
    {i \in S : srv[url_of(ps[i][1], ps[i][2])].head # NoHeader}

RECURSIVE SumRaw(_, _)
\* sum of the content-length header values at the positions in S
SumRaw(ps, S) ==
    IF S = {} THEN 0
    ELSE LET i == CHOOSE j \in S : TRUE
         IN srv[url_of(ps[i][1], ps[i][2])].head + SumRaw(ps, S \ {i})

\* C16: a missing file whose HEAD response has no content-length adds 0; the
\* probe still asks for every missing file after it and returns the sum of
\* the lengths that were declared.
C16_MissingHeaderIsZero ==
    pc = "ret" =>
        LET ps == Pairs(arg)
            ms == MissingIdx(ps)
        IN /\ ret.total = SumRaw(ps, WithHeader(ps, ms))
           /\ ret.total >= 0
           /\ \A i \in ms : \E k \in 1..Len(ret.heads) :
                 ret.heads[k] = url_of(ps[i][1], ps[i][2])

\* the probe has returned the length of a file that comes after a missing
\* file without the header
C16_Witness ==
    /\ pc = "ret"
    /\ LET ps == Pairs(arg)
           ms == MissingIdx(ps)
       IN \E i, j \in ms :
            /\ i < j
            /\ srv[url_of(ps[i][1], ps[i][2])].head = NoHeader
            /\ srv[url_of(ps[j][1], ps[j][2])].head = 700
            /\ ret.total = 700
            /\ Len(ret.heads) >= 2

\* C17: when a run has returned without a failure, every file of every
\* selected, platform-eligible category exists, and a worker was submitted
\* for each of them that was missing when the run started.
C17_FinishedRunComplete ==
    pc = "done" =>
        /\ SelectedDests \subseteq DOMAIN fs
        /\ \A d \in SelectedDests \ DOMAIN fs0 :
              \E i \in 1..Len(wk) : wk[i].dest = d

\* the same for the runs that took the download branch
C17_DownloadBranchComplete ==
    (pc = "done" /\ tracker.live) =>
        /\ SelectedDests \subseteq DOMAIN fs
        /\ \A d \in SelectedDests \ DOMAIN fs0 :
              \E i \in 1..Len(wk) : wk[i].dest = d /\ wk[i].st = "done"

\* the pairs whose file was on disk with less than the served content when
\* the run started
Incomplete0 ==
    {p \in AllPairs :
        /\ destination_path(p[1], p[2]) \in DOMAIN fs0
        /\ fs0[destination_path(p[1], p[2])] < srv[url_of(p[1], p[2])].body}

\* C18: a worker whose stream fails after it opened its file leaves the file
\* on disk with the bytes written so far, fewer than the content; no file is
\* ever removed; a run that follows a failed run sends no HEAD request and
\* submits no worker for a file that was incomplete when it started, and
\* leaves its content as it was.
C18_PartialFileStays ==
    /\ [][\A i \in 1..Len(wk) :
             (i \in 1..Len(wk') /\ wk[i].st = "open" /\ wk'[i].st = "failed") =>
                 /\ wk[i].dest \in DOMAIN fs'
                 /\ fs'[wk[i].dest] = fs[wk[i].dest]
                 /\ fs'[wk[i].dest] < srv[wk[i].url].body]_vars
    /\ [][DOMAIN fs \subseteq DOMAIN fs']_vars
    /\ [][run' # run => fs0' = fs]_vars
    /\ []((run > 1 /\ prev = "failed") =>
            \A p \in Incomplete0 :
                /\ url_of(p[1], p[2]) \notin Range(heads)
                /\ \A i \in 1..Len(wk) : wk[i].dest # destination_path(p[1], p[2])
                /\ destination_path(p[1], p[2]) \in DOMAIN fs
                /\ fs[destination_path(p[1], p[2])] = fs0[destination_path(p[1], p[2])])

\* the run after a failed run has downloaded other files and returned, and a
\* selected file cut at one block is still as the failed worker left it
C18_Witness ==
    /\ run = 2
    /\ prev = "failed"
    /\ pc = "done"
    /\ tracker.stopped
    /\ \E p \in SelectedPairs :
          /\ destination_path(p[1], p[2]) \in DOMAIN fs
          /\ fs[destination_path(p[1], p[2])] = block_size
          /\ srv[url_of(p[1], p[2])].body > block_size

\* C19: while a worker of the batch is queued or running, a failure of
\* another worker does not move the pipeline; when the failure reaches the
\* pipeline every worker of the batch has written its whole file or has
\* failed, none is left queued.
C19_FailureWaitsForBatch ==
    /\ [][(AnyFailed /\ \E i \in 1..Len(wk) : wk[i].st \in {"queued", "got", "open"})
             => pc' = pc]_vars
    /\ [](pc = "failed" =>
            \A i \in 1..Len(wk) :
                \/ wk[i].st = "failed"
                \/ /\ wk[i].st = "done"
                   /\ wk[i].dest \in DOMAIN fs
                   /\ fs[wk[i].dest] = srv[wk[i].url].body)

\* the failure of the first of three pretrained workers has reached the
\* pipeline; the two others, one of them behind it in the queue, have
\* written their files
C19_Witness ==
    /\ pc = "failed"
    /\ Len(wk) >= PoolSize + 1
    /\ wk[1].st = "failed"
    /\ \A i \in 2..Len(wk) :
          /\ wk[i].cat = wk[1].cat
          /\ wk[i].st = "done"
          /\ fs[wk[i].dest] = srv[wk[i].url].body

\* C20: a file that was on disk when the run started is on disk with the
\* same content in every state of the run; the run sends no GET request for
\* it and no worker has it as destination.
C20_PresentUntouched ==
    \A p \in AllPairs :
        LET d == destination_path(p[1], p[2])
        IN d \in DOMAIN fs0 =>
              /\ d \in DOMAIN fs
              /\ fs[d] = fs0[d]
              /\ url_of(p[1], p[2]) \notin gets
              /\ \A i \in 1..Len(wk) : wk[i].dest # d

\* a run has written a file of a category and returned; another file of the
\* same category was present before and still has its old content
C20_Witness ==
    /\ pc = "done"
    /\ tracker.stopped
    /\ \E f \in 1..Len(pretraineds_hifigan_list) :
          \E p, q \in Range(Pairs(<< pretraineds_hifigan_list[f] >>)) :
              /\ sel.pretraineds_hifigan
              /\ destination_path(p[1], p[2]) \in DOMAIN fs0
              /\ fs[destination_path(p[1], p[2])] \in OldLens
              /\ destination_path(q[1], q[2]) \notin DOMAIN fs0
              /\ url_of(q[1], q[2]) \in gets
              /\ destination_path(q[1], q[2]) \in DOMAIN fs

====
